---- MODULE Spec2Model ----
(***************************************************************************)
(* Iterative multi-expert analysis orchestrator of cool-ai:                *)
(*   src/src/core/iteration.py  IterativeAnalyzer                          *)
(*   src/src/core/chain.py      AnalysisChain, AnalysisResult              *)
(*   src/src/core/expert.py     ExpertLoader                               *)
(*   src/src/core/plugin.py     PluginManager                              *)
(* Strings of the program are modelled as sequences of tokens; an await is *)
(* the boundary between two actions.                                       *)
(***************************************************************************)
EXTENDS Integers, Sequences, FiniteSets, TLC

\* ------------------------------------------------------------------ bounds
MaxRounds == 2          \* largest round budget given to IterativeAnalyzer
MaxChainIter == 2       \* largest AnalysisChain.max_iterations
MaxRawLen == 3          \* longest gap-identifier response, in tokens
MaxAnalyses == 3        \* longest list handed to _calculate_consensus alone
MaxTextLen == 1         \* longest analysis text of such a list, in words
MaxStoreLen == 2        \* most expert documents in the store of the catalog alone
MaxLimit == 2           \* largest max_experts given to find_relevant_experts alone

\* ------------------------------------------------------- program constants
GapTruncLen == 200      \* result[:200]
MaxExperts == 4         \* find_relevant_experts(max_experts=4)
NoMatchPenalty == 100   \* priority + 100
FirstSnippets == 5      \* search_results[:5]
SuppSnippets == 3       \* new_results[:3]
DigestLen == 2          \* supplemental_queries[:2]
RefLimit == 5           \* self.search_results[:5] in to_markdown

\* ------------------------------------------------------------ generic helpers
Min(a, b) == IF a <= b THEN a ELSE b

\* s[:n]
Take(s, n) == SubSeq(s, 1, Min(n, Len(s)))

\* s[:n] for any integer n: a negative n counts from the end
SliceTo(s, n) == IF n >= 0 THEN Take(s, n) ELSE SubSeq(s, 1, Len(s) + n)

Range(s) == {s[i] : i \in 1..Len(s)}

\* all sequences over S of length at most n
SeqsUpTo(S, n) == UNION {[1..k -> S] : k \in 0..n}

\* Python's None where a record is expected
None == [none |-> TRUE]

\* =====================================================================
\* ExpertLoader (expert.py)
\* =====================================================================
\* An EXPERT.md document: valid = parse_expert_file succeeds on it.
ExpA == [name |-> "A", priority |-> 1, domains |-> {"stock"}, valid |-> TRUE]
ExpB == [name |-> "B", priority |-> 2, domains |-> {"policy"}, valid |-> TRUE]
BadDoc == [name |-> "X", priority |-> 1, domains |-> {}, valid |-> FALSE]
ExpHi == [name |-> "H", priority |-> 99, domains |-> {"stock"}, valid |-> TRUE]
ExpNeg == [name |-> "N", priority |-> -2, domains |-> {"policy"}, valid |-> TRUE]
ExpMacro == [name |-> "M", priority |-> 3, domains |-> {"macro"}, valid |-> TRUE]
\* a second document that declares the name A
ExpA2 == [name |-> "A", priority |-> 0, domains |-> {"policy"}, valid |-> TRUE]

\* Expert.matches_query: a domain keyword (or a description word longer than
\* 3 characters, kept in the same field) occurs in the query text
matches_query(expert, words) == expert.domains \cap words # {}

\* dict[name] = expert on an insertion-ordered dict
RECURSIVE DictPut(_, _)
DictPut(d, e) ==
    IF d = <<>> THEN <<e>>
    ELSE IF Head(d).name = e.name THEN <<e>> \o Tail(d)
    ELSE <<Head(d)>> \o DictPut(Tail(d), e)

\* dict.get(name): the record, or None
DictGet(d, name) ==
    IF \E i \in 1..Len(d) : d[i].name = name
    THEN d[CHOOSE i \in 1..Len(d) : d[i].name = name]
    ELSE None

\* list.sort(key=...): stable, on a sequence of <<key, item>> pairs
RECURSIVE InsertByKey(_, _)
InsertByKey(p, s) ==
    IF s = <<>> THEN <<p>>
    ELSE IF p[1] < Head(s)[1] THEN <<p>> \o s
    ELSE <<Head(s)>> \o InsertByKey(p, Tail(s))

RECURSIVE StableSort(_)
StableSort(s) ==
    IF s = <<>> THEN <<>>
    ELSE InsertByKey(s[Len(s)], StableSort(SubSeq(s, 1, Len(s) - 1)))

Items(pairs) == [i \in 1..Len(pairs) |-> pairs[i][2]]

\* the loop of load_all: every parsable document enters the cache
RECURSIVE LoadCache(_, _)
LoadCache(docs, c) ==
    IF docs = <<>> THEN c
    ELSE LoadCache(Tail(docs), IF Head(docs).valid THEN DictPut(c, Head(docs)) ELSE c)

IsValid(doc) == doc.valid

\* a variant that merges a reload into the cache it finds
load_all_Merge(c, docs, reload) ==
    IF c # <<>> /\ ~reload
    THEN [cache |-> c, ret |-> c]
    ELSE LET parsed == SelectSeq(docs, IsValid)
             keyed == [i \in 1..Len(parsed) |-> <<parsed[i].priority, parsed[i]>>]
         IN [cache |-> LoadCache(docs, c), ret |-> Items(StableSort(keyed))]

\* load_all: [cache |-> the cache afterwards, ret |-> the list returned]
load_all(c, docs, reload) ==
    IF c # <<>> /\ ~reload
    THEN [cache |-> c, ret |-> c]
    ELSE LET parsed == SelectSeq(docs, IsValid)
             keyed == [i \in 1..Len(parsed) |-> <<parsed[i].priority, parsed[i]>>]
         IN [cache |-> LoadCache(docs, <<>>), ret |-> Items(StableSort(keyed))]

\* the cache after get_expert (it loads when the cache is empty)
get_expert_cache(c, docs) == IF c = <<>> THEN load_all(c, docs, FALSE).cache ELSE c

get_expert(c, docs, name) == DictGet(get_expert_cache(c, docs), name)

\* a variant without the penalty of the experts that do not match
find_relevant_experts_NoPenalty(c, docs, words, max_experts) ==
    LET all_experts == load_all(c, docs, FALSE).ret
        scored == [i \in 1..Len(all_experts) |->
                     <<all_experts[i].priority, all_experts[i]>>]
    IN SliceTo(Items(StableSort(scored)), max_experts)

\* a variant that returns the matching experts alone when there are any
find_relevant_experts_MatchingOnly(c, docs, words, max_experts) ==
    LET all_experts == load_all(c, docs, FALSE).ret
        Matches(e) == matches_query(e, words)
        matching == SelectSeq(all_experts, Matches)
        pool == IF matching # <<>> THEN matching ELSE all_experts
        scored == [i \in 1..Len(pool) |->
                     <<IF matches_query(pool[i], words)
                       THEN pool[i].priority
                       ELSE pool[i].priority + NoMatchPenalty,
                       pool[i]>>]
    IN SliceTo(Items(StableSort(scored)), max_experts)

find_relevant_experts(c, docs, words, max_experts) ==
    LET all_experts == load_all(c, docs, FALSE).ret
        scored == [i \in 1..Len(all_experts) |->
                     <<IF matches_query(all_experts[i], words)
                       THEN all_experts[i].priority
                       ELSE all_experts[i].priority + NoMatchPenalty,
                       all_experts[i]>>]
    IN SliceTo(Items(StableSort(scored)), max_experts)

\* AnalysisChain.run step 1: the experts of this call
RECURSIVE LookupAll(_, _, _)
LookupAll(c, docs, names) ==
    IF names = <<>> THEN <<>>
    ELSE LET e == get_expert(c, docs, Head(names))
         IN (IF e # None THEN <<e>> ELSE <<>>) \o LookupAll(c, docs, Tail(names))

\* a variant that falls back to relevance when no supplied name is known
SelectExperts_Fallback(c, docs, names, words) ==
    IF LookupAll(c, docs, names) # <<>>
    THEN LookupAll(c, docs, names)
    ELSE find_relevant_experts(get_expert_cache(c, docs), docs, words, MaxExperts)

SelectExperts(c, docs, names, words) ==
    IF names # <<>>
    THEN LookupAll(c, docs, names)
    ELSE find_relevant_experts(c, docs, words, MaxExperts)

\* =====================================================================
\* PluginManager.search (plugin.py) and AnalysisChain.search (chain.py)
\* =====================================================================
\* _search_plugins in insertion order, as registered before a run
Registries == { <<>>, <<"duckduckgo">>, <<"duckduckgo", "tavily">> }

\* what a provider's search(query, max_results) can do: raise, or return a list
ProviderError == <<"ProviderError">>
ResultLists == { <<>>, <<"r1", "r2">> }
ProviderReplies == ResultLists \cup {ProviderError}

Raised(kind) == [raised |-> TRUE, kind |-> kind, value |-> <<>>]
Returned(v) == [raised |-> FALSE, kind |-> "", value |-> v]

\* PluginManager.search: reply is what the chosen provider does when called
PluginManager_search(plugins, engine, reply) ==
    IF engine # ""
    THEN IF engine \in Range(plugins)
         THEN (IF reply = ProviderError THEN Raised("ProviderError") ELSE Returned(reply))
         ELSE Raised("ValueError")
    ELSE IF plugins = <<>>
         THEN Raised("ValueError")
         ELSE (IF reply = ProviderError THEN Raised("ProviderError") ELSE Returned(reply))

\* no PluginManager.search call is pending
NoCall == [raised |-> FALSE, kind |-> "idle", value |-> <<>>]

\* AnalysisChain.search: engine = "tavily" if important else None
Engine(important) == IF important THEN "tavily" ELSE ""

\* a variant without the try/except
search_NoCatch(r) == r

\* AnalysisChain.search, given how PluginManager.search ended: the try/except
\* turns every exception into []
search(r) == IF r.raised THEN Returned(<<>>) ELSE Returned(r.value)

\* =====================================================================
\* IterativeAnalyzer._calculate_consensus (iteration.py)
\* =====================================================================
\* keyword lists, lower case; the Chinese keywords are written in pinyin
agreement_keywords == <<"tongyi", "yizhi", "xiangsi", "zhichi", "rentong", "agree", "similar">>
disagreement_keywords == <<"butongyi", "fenqi", "fandui", "zhiyi", "disagree", "differ">>

\* str.count(kw) on one word of a text: "disagree" contains "agree",
\* "butongyi" contains "tongyi"
Occurs(kw, word) ==
    IF kw = word \/ <<kw, word>> \in {<<"agree", "disagree">>, <<"tongyi", "butongyi">>}
    THEN 1 ELSE 0

RECURSIVE Count(_, _)
Count(text, kw) ==
    IF text = <<>> THEN 0 ELSE Occurs(kw, Head(text)) + Count(Tail(text), kw)

RECURSIVE CountAll(_, _)
CountAll(text, kws) ==
    IF kws = <<>> THEN 0 ELSE Count(text, Head(kws)) + CountAll(text, Tail(kws))

RECURSIVE Total(_, _)
Total(analyses, kws) ==
    IF analyses = <<>> THEN 0
    ELSE CountAll(Head(analyses).analysis, kws) + Total(Tail(analyses), kws)

\* a float as a fraction <<numerator, denominator>>, denominator positive
FracLess(x, y) == x[1] * y[2] < y[1] * x[2]

\* min(a, b) and max(a, b) of Python: b only when it is strictly smaller/larger
FracMin(a, b) == IF FracLess(b, a) THEN b ELSE a
FracMax(a, b) == IF FracLess(a, b) THEN b ELSE a

\* a variant whose trivial case is the empty list only
calculate_consensus_EmptyOnly(as) ==
    IF Len(as) < 1 THEN <<1, 1>>
    ELSE LET a == Total(as, agreement_keywords)
             d == Total(as, disagreement_keywords)
         IN IF a + d = 0 THEN <<7, 10>>
            ELSE FracMin(<<1, 1>>, FracMax(<<0, 1>>, <<2 * a + d + 1, 2 * (a + d + 1)>>))

\* a variant without the neutral default
calculate_consensus_NoDefault(as) ==
    IF Len(as) < 2 THEN <<1, 1>>
    ELSE LET a == Total(as, agreement_keywords)
             d == Total(as, disagreement_keywords)
         IN FracMin(<<1, 1>>, FracMax(<<0, 1>>, <<2 * a + d + 1, 2 * (a + d + 1)>>))

\* a variant that divides by agreement + disagreement
calculate_consensus_NoPlusOne(as) ==
    IF Len(as) < 2 THEN <<1, 1>>
    ELSE LET a == Total(as, agreement_keywords)
             d == Total(as, disagreement_keywords)
         IN IF a + d = 0 THEN <<7, 10>>
            ELSE FracMin(<<1, 1>>, FracMax(<<0, 1>>, <<2 * a + d, 2 * (a + d)>>))

\* the score as a fraction:
\*   0.5 + 0.5 * a / (a + d + 1) = (2a + d + 1) / (2 (a + d + 1))
calculate_consensus(as) ==
    IF Len(as) < 2 THEN <<1, 1>>
    ELSE LET a == Total(as, agreement_keywords)
             d == Total(as, disagreement_keywords)
         IN IF a + d = 0 THEN <<7, 10>>
            ELSE FracMin(<<1, 1>>, FracMax(<<0, 1>>, <<2 * a + d + 1, 2 * (a + d + 1)>>))

\* a variant that wants the score above the threshold
ScoreAtLeast_Strict(score, thr) == score[1] * 1000 > thr * score[2]

\* consensus_score >= consensus_threshold, the threshold in thousandths
ScoreAtLeast(score, thr) == score[1] * 1000 >= thr * score[2]

\* =====================================================================
\* IterativeAnalyzer._identify_gaps (iteration.py)
\* =====================================================================
\* A response is a sequence of tokens: "{", "}", "x" (any other text),
\* "G" (a member "gaps": ["g"]), "Q" (a member "queries": ["policy"]),
\* "QQ" (a member "queries": ["policy", "macro", "stock"]).
RawTokens == {"{", "}", "x", "G", "Q"}
MemberTokens == {"G", "Q", "QQ"}

\* str.find("{"): index from 0, -1 when absent
RECURSIVE Find(_, _, _)
Find(s, tok, i) ==
    IF i > Len(s) THEN -1
    ELSE IF s[i] = tok THEN i - 1 ELSE Find(s, tok, i + 1)

\* str.rfind("}"): index from 0, -1 when absent
RECURSIVE RFind(_, _, _)
RFind(s, tok, i) ==
    IF i < 1 THEN -1
    ELSE IF s[i] = tok THEN i - 1 ELSE RFind(s, tok, i - 1)

\* result[start:end]
Slice(s, start, end) == SubSeq(s, start + 1, Min(end, Len(s)))

\* json.loads succeeds on a slice that is one object of known members
JsonLoadsOk(s) ==
    /\ Len(s) >= 2
    /\ s[1] = "{"
    /\ s[Len(s)] = "}"
    /\ \A i \in 2..(Len(s) - 1) : s[i] \in MemberTokens

\* data.get(key, []): the last member with that key wins
RECURSIVE JsonGet(_, _)
JsonGet(s, key) ==
    IF s = <<>> THEN <<>>
    ELSE LET last == s[Len(s)]
         IN IF key = "gaps" /\ last = "G" THEN <<"g">>
            ELSE IF key = "queries" /\ last = "Q" THEN <<"policy">>
            ELSE IF key = "queries" /\ last = "QQ" THEN <<"policy", "macro", "stock">>
            ELSE JsonGet(SubSeq(s, 1, Len(s) - 1), key)

\* the parsing part of _identify_gaps: <<gaps, queries>>; a gap entry made of
\* the raw text is the token sequence itself
identify_gaps(result) ==
    LET start == Find(result, "{", 1)
        end == RFind(result, "}", Len(result)) + 1
    IN IF start >= 0 /\ end > start
       THEN IF JsonLoadsOk(Slice(result, start, end))
            THEN [gaps |-> JsonGet(Slice(result, start, end), "gaps"),
                  queries |-> JsonGet(Slice(result, start, end), "queries")]
            ELSE [gaps |-> <<Take(result, GapTruncLen)>>, queries |-> <<>>]
       ELSE [gaps |-> <<>>, queries |-> <<>>]

\* =====================================================================
\* AnalysisResult.to_markdown (chain.py)
\* =====================================================================
\* the entries of the references section, in the order they are written
references(r) == Take(r.search_results, RefLimit)

\* =====================================================================
\* State
\* =====================================================================
VARIABLES
    \* collaborators and arguments, fixed during a run
    store,                  \* documents under experts_dir
    search_plugins,         \* PluginManager._search_plugins
    max_iterations,         \* IterativeAnalyzer.max_iterations
    consensus_threshold,    \* in thousandths
    chain_max_iterations,   \* AnalysisChain.max_iterations
    expert_names,           \* run(experts=...); None is <<>>
    \* ExpertLoader
    cache,                  \* ExpertLoader._cache, in insertion order
    \* IterativeAnalyzer.run locals
    current_query,          \* the question handed to the next round
    all_search_results,
    iteration,
    result,
    consensus_score,
    \* AnalysisChain.run locals
    experts,
    stock_context,
    context,
    search_results,
    chain_iteration,
    all_analyses,
    tasks,                  \* the coroutines handed to asyncio.gather
    first_failed,           \* index of the first task that raised, 0 if none
    pm_result,              \* how the awaited PluginManager.search ended
    \* control
    pc,
    outcome,                \* "running", "returned" or "raised"
    error,                  \* the exception that reached the caller
    returned,               \* the AnalysisResult the caller received
    terminal_state,
    \* observation of the run
    calls,                  \* collaborator calls made so far
    rounds_done,            \* completed AnalysisChain.run calls
    gap_log,                \* the query list of every _identify_gaps call
    failed_experts,         \* names of the experts whose generation call raised
    \* _identify_gaps on its own
    raw,
    gap_report,
    \* _calculate_consensus on its own
    analyses,               \* the list of ExpertAnalysis handed in
    score,                  \* the float returned, as a fraction
    \* ExpertLoader on its own
    catalog_ret,            \* what the last ExpertLoader call returned
    catalog_op,             \* the last ExpertLoader call
    \* a second IterativeAnalyzer.run given the same first round
    twin,
    \* the argument IterativeAnalyzer.__init__ was given for max_iterations
    max_iterations_arg,
    \* PluginManager on its own: _plugins, _search_plugins, _export_plugins
    plugins

vars_run == <<store, search_plugins, max_iterations, consensus_threshold,
              chain_max_iterations, expert_names, cache, current_query,
              all_search_results, iteration, result, consensus_score, experts,
              stock_context, context, search_results, chain_iteration,
              all_analyses, tasks, first_failed, pm_result, pc, outcome, error,
              returned, terminal_state, calls, rounds_done, gap_log,
              failed_experts>>

vars_gap == <<raw, gap_report>>

vars_consensus == <<analyses, score>>

vars_catalog == <<catalog_ret, catalog_op>>

\* the variables no step of a run touches
vars_setup == <<max_iterations_arg, plugins>>

vars_pure == <<vars_gap, vars_consensus, vars_catalog, twin, vars_setup>>

vars == <<vars_run, vars_pure>>

\* ------------------------------------------------------------ input sets
\* the user's question, as the set of its words
query == <<"stock">>

Question == Range(query)

\* the label between the question and the digest of supplemental queries
DigestLabel == "buchong_xinxi_xuqiu"

Thresholds == {0, 800}

\* expert names a caller passes, with the store they are looked up in
ExpertInputs ==
    { [names |-> <<>>, docs |-> <<>>],
      [names |-> <<"U">>, docs |-> <<ExpB, BadDoc, ExpA>>],
      [names |-> <<"U", "A">>, docs |-> <<ExpB, BadDoc, ExpA>>],
      [names |-> <<"A", "A">>, docs |-> <<ExpB, BadDoc, ExpA>>],
      [names |-> <<"B", "A">>, docs |-> <<ExpB, BadDoc, ExpA>>],
      [names |-> <<>>, docs |-> <<ExpB, BadDoc, ExpA>>] }

\* the names an expert document can declare
ExpertNames == {"A", "B", "X", "H", "N", "M"}

\* the calls made so far: none. by_expert counts the generation calls made
\* with each expert's prompt; contexts lists the context string of every
\* fan-out batch when watch_contexts is set
NoCalls == [stock |-> 0, search |-> 0, generate |-> 0, gaps |-> 0,
            by_expert |-> [n \in ExpertNames |-> 0],
            watch_contexts |-> FALSE, contexts |-> <<>>]

\* what an expert's generation call can return
Texts == { <<"agree">>, <<"differ">> }

\* what the gap identifier's generation call can return
GapReplies == SeqsUpTo(RawTokens, MaxRawLen) \cup { <<"{", "QQ", "}">> }

\* the words of the question handed to a round
QueryWords(question) == Range(question)

NoError == [kind |-> "", expert |-> ""]

\* an exception of the generation gateway, as asyncio.gather and the awaits
\* pass it on: nothing is added to it
GenerationError == [kind |-> "GenerationError", expert |-> ""]

\* =====================================================================
\* Init
\* =====================================================================
\* the locals of chain.run before it is called and after it has returned
\* (experts stays, as the record of the round's selection)
ChainIdle ==
    /\ stock_context = FALSE
    /\ context = <<>>
    /\ search_results = <<>>
    /\ chain_iteration = 0
    /\ all_analyses = <<>>
    /\ tasks = <<>>
    /\ first_failed = 0
    /\ pm_result = NoCall

\* Optional[int]: an int that was given
Some(n) == [none |-> FALSE, value |-> n]

\* Config.max_iterations
ConfigMaxIterations == 3

\* a variant that takes the default only when the argument is None
__init___NoneOnly(arg) ==
    IF arg = None THEN ConfigMaxIterations ELSE arg.value

\* self.max_iterations = max_iterations or config.max_iterations
__init__(arg) ==
    IF arg = None THEN ConfigMaxIterations
    ELSE IF arg.value = 0 THEN ConfigMaxIterations
    ELSE arg.value

InitLocals ==
    /\ max_iterations = __init__(max_iterations_arg)
    /\ cache = <<>>
    /\ current_query = query
    /\ all_search_results = <<>>
    /\ iteration = 0
    /\ result = None
    /\ consensus_score = <<0, 1>>
    /\ experts = <<>>
    /\ ChainIdle
    /\ outcome = "running"
    /\ error = NoError
    /\ returned = None
    /\ terminal_state = "RUNNING"
    /\ rounds_done = 0
    /\ gap_log = <<>>
    /\ failed_experts = {}

InitIdle ==
    /\ InitLocals
    /\ calls = NoCalls

\* the variables of the stand-alone calls, when no such call is made
GapIdle == raw = <<>> /\ gap_report = None

ConsensusIdle == analyses = <<>> /\ score = <<0, 1>>

\* no ExpertLoader call yet. scanned: the store as it was when the cache was
\* last filled; before: the cache when the call began; reloaded: a call with
\* reload=True has been made
NoOp == [op |-> "none", reload |-> FALSE, words |-> {}, limit |-> 0, name |-> "",
         scanned |-> <<>>, before |-> <<>>, reloaded |-> FALSE]

CatalogIdle == catalog_ret = <<>> /\ catalog_op = NoOp

\* PluginManager.__init__: three empty dicts
NoPlugins == [all |-> <<>>, search |-> <<>>, export |-> <<>>]

PluginIdle == plugins = NoPlugins

\* no second run is observed
NoTwin == [consensus_threshold |-> 0, max_iterations |-> 0, outcome |-> "none",
           terminal_state |-> "RUNNING", returned |-> None]

InitRun ==
    /\ \E inp \in ExpertInputs : store = inp.docs /\ expert_names = inp.names
    /\ search_plugins \in Registries
    /\ max_iterations_arg \in {Some(n) : n \in 1..MaxRounds}
    /\ consensus_threshold \in Thresholds
    /\ chain_max_iterations \in 1..MaxChainIter
    /\ InitIdle
    /\ pc = "iter_loop"
    /\ GapIdle
    /\ ConsensusIdle
    /\ CatalogIdle
    /\ PluginIdle

Init ==
    /\ InitRun
    /\ twin = NoTwin

\* =====================================================================
\* IterativeAnalyzer.run and AnalysisChain.run, one action per stretch of
\* code between two awaits
\* =====================================================================
\* list(set(all_search_results)): SearchResult is a dataclass with eq and
\* without frozen, so it has no __hash__ and set() raises on any element
list_set(xs) == IF xs = <<>> THEN Returned(<<>>) ELSE Raised("TypeError")

\* an exception leaves run(): nothing is returned
Raise(e) ==
    /\ outcome' = "raised"
    /\ error' = e
    /\ pc' = "done"
    /\ UNCHANGED returned

\* a variant that leaves the iteration_count chain.run has set
Finish_KeepChainCount(state) ==
    /\ terminal_state' = state
    /\ LET d == list_set(all_search_results)
       IN IF d.raised
          THEN /\ UNCHANGED result
               /\ Raise([kind |-> d.kind, expert |-> ""])
          ELSE /\ result' = [result EXCEPT !.search_results = d.value]
               /\ returned' = result'
               /\ outcome' = "returned"
               /\ pc' = "done"
               /\ UNCHANGED error

\* the three terminal branches: result.iteration_count = iteration;
\* result.search_results = list(set(all_search_results)); return result
Finish(state) ==
    /\ terminal_state' = state
    /\ LET d == list_set(all_search_results)
           counted == [result EXCEPT !.iteration_count = iteration]
       IN IF d.raised
          THEN /\ result' = counted
               /\ Raise([kind |-> d.kind, expert |-> ""])
          ELSE /\ result' = [counted EXCEPT !.search_results = d.value]
               /\ returned' = result'
               /\ outcome' = "returned"
               /\ pc' = "done"
               /\ UNCHANGED error

\* while iteration < self.max_iterations: iteration += 1; chain.run(...)
IterBegin ==
    /\ pc = "iter_loop"
    /\ iteration < max_iterations
    /\ iteration' = iteration + 1
    /\ pc' = "chain_load"
    /\ UNCHANGED <<store, search_plugins, max_iterations, consensus_threshold,
                   chain_max_iterations, expert_names, cache, current_query,
                   all_search_results, result, consensus_score, experts,
                   stock_context, context, search_results, chain_iteration,
                   all_analyses, tasks, first_failed, outcome, error, returned,
                   terminal_state, calls, rounds_done, gap_log,
                   pm_result, failed_experts, vars_pure>>

\* chain.run step 1: load the experts, raise ValueError when there are none
ChainLoad ==
    /\ pc = "chain_load"
    /\ LET sel == SelectExperts(cache, store, expert_names, QueryWords(current_query))
       IN /\ experts' = sel
          /\ cache' = get_expert_cache(cache, store)
          /\ IF sel = <<>>
             THEN Raise([kind |-> "ValueError", expert |-> ""])
             ELSE /\ pc' = "chain_stock"
                  /\ UNCHANGED <<outcome, error, returned>>
    /\ UNCHANGED <<store, search_plugins, max_iterations, consensus_threshold,
                   chain_max_iterations, expert_names, current_query,
                   all_search_results, iteration, result, consensus_score,
                   stock_context, context, search_results, chain_iteration,
                   all_analyses, tasks, first_failed, terminal_state, calls,
                   rounds_done, gap_log,
                   pm_result, failed_experts, vars_pure>>

\* chain.run step 2: get_stock_context returns text, returns "", or raises
\* (caught and logged)
ChainStock ==
    /\ pc = "chain_stock"
    /\ \E reply \in {"data", "empty", "error"} : stock_context' = (reply = "data")
    /\ calls' = [calls EXCEPT !.stock = @ + 1]
    /\ pc' = "chain_search"
    /\ UNCHANGED <<store, search_plugins, max_iterations, consensus_threshold,
                   chain_max_iterations, expert_names, cache, current_query,
                   all_search_results, iteration, result, consensus_score,
                   experts, context, search_results, chain_iteration,
                   all_analyses, tasks, first_failed, outcome, error, returned,
                   terminal_state, rounds_done, gap_log,
                   pm_result, failed_experts, vars_pure>>

\* chain.run step 3: the first search and the context built from it
FirstContext(stock, results) ==
    LET c == (IF stock THEN <<"STOCK">> ELSE <<>>)
             \o (IF results # <<>> THEN <<"SEARCH">> \o Take(results, FirstSnippets) ELSE <<>>)
    IN IF c = <<>> THEN <<"NONE">> ELSE c

\* await self.search(question): PluginManager.search picks the provider and
\* awaits it, or raises ValueError when there is none
ChainSearch ==
    /\ pc = "chain_search"
    /\ \E reply \in ProviderReplies :
         pm_result' = PluginManager_search(search_plugins, Engine(FALSE), reply)
    /\ calls' = [calls EXCEPT !.search = @ + 1]
    /\ pc' = "chain_search_done"
    /\ UNCHANGED <<store, search_plugins, max_iterations, consensus_threshold,
                   chain_max_iterations, expert_names, cache, current_query,
                   all_search_results, iteration, result, consensus_score,
                   experts, stock_context, context, search_results,
                   chain_iteration, all_analyses, tasks, first_failed, outcome,
                   error, returned, terminal_state, rounds_done, gap_log,
                   failed_experts, vars_pure>>

\* self.search returns; the context is built from its results
ChainSearchDone ==
    /\ pc = "chain_search_done"
    /\ LET found == search(pm_result)
       IN IF found.raised
          THEN /\ Raise([kind |-> found.kind, expert |-> ""])
               /\ UNCHANGED <<search_results, context, all_analyses, chain_iteration>>
          ELSE /\ search_results' = found.value
               /\ context' = FirstContext(stock_context, found.value)
               /\ all_analyses' = <<>>
               /\ chain_iteration' = 0
               /\ pc' = IF chain_max_iterations > 0 THEN "chain_fanout" ELSE "chain_consensus"
               /\ UNCHANGED <<outcome, error, returned>>
    /\ pm_result' = NoCall
    /\ UNCHANGED <<store, search_plugins, max_iterations, consensus_threshold,
                   chain_max_iterations, expert_names, cache, current_query,
                   all_search_results, iteration, result, consensus_score,
                   experts, stock_context, tasks, first_failed, terminal_state,
                   calls, rounds_done, gap_log, failed_experts, vars_pure>>

\* tasks = [analyze_with_expert(expert, question, context) for expert in experts];
\* asyncio.gather(*tasks) starts them all
ChainFanout ==
    /\ pc = "chain_fanout"
    /\ tasks' = [i \in 1..Len(experts) |-> [st |-> "running", analysis |-> <<>>]]
    /\ first_failed' = 0
    /\ calls' = [calls EXCEPT
                   !.generate = @ + Len(experts),
                   !.by_expert = [n \in ExpertNames |->
                       @[n] + Cardinality({i \in 1..Len(experts) : experts[i].name = n})],
                   !.contexts = IF calls.watch_contexts THEN Append(@, context) ELSE @]
    /\ pc' = "chain_gather"
    /\ UNCHANGED <<store, search_plugins, max_iterations, consensus_threshold,
                   chain_max_iterations, expert_names, cache, current_query,
                   all_search_results, iteration, result, consensus_score,
                   experts, stock_context, context, search_results,
                   chain_iteration, all_analyses, outcome, error, returned,
                   terminal_state, rounds_done, gap_log,
                   pm_result, failed_experts, vars_pure>>

UnchangedByTask ==
    UNCHANGED <<store, search_plugins, max_iterations, consensus_threshold,
                chain_max_iterations, expert_names, cache, current_query,
                all_search_results, iteration, result, consensus_score,
                experts, stock_context, context, search_results,
                chain_iteration, all_analyses, pc, outcome, error, returned,
                terminal_state, calls, rounds_done, gap_log, pm_result, vars_pure>>

\* one expert's generation call returns
TaskDone(i) ==
    /\ i \in 1..Len(tasks)
    /\ tasks[i].st = "running"
    /\ \E text \in Texts : tasks' = [tasks EXCEPT ![i] = [st |-> "done", analysis |-> text]]
    /\ UNCHANGED <<first_failed, failed_experts>>
    /\ UnchangedByTask

\* one expert's generation call raises; gather keeps the first exception
TaskFail(i) ==
    /\ i \in 1..Len(tasks)
    /\ tasks[i].st = "running"
    /\ tasks' = [tasks EXCEPT ![i] = [st |-> "failed", analysis |-> <<>>]]
    /\ first_failed' = IF first_failed = 0 THEN i ELSE first_failed
    /\ failed_experts' = failed_experts \cup {experts[i].name}
    /\ UnchangedByTask

\* the ExpertAnalysis records of a finished fan-out, in the order of experts
Analyses(es, ts) ==
    [i \in 1..Len(es) |-> [expert_name |-> es[i].name, analysis |-> ts[i].analysis]]

\* a variant that waits for every task and drops the experts that raised
GatherReturn_Partial ==
    /\ pc = "chain_gather"
    /\ \A i \in 1..Len(tasks) : tasks[i].st # "running"
    /\ LET IsDone(a) == a.st = "done"
           Mark(i) == [st |-> tasks[i].st, expert_name |-> experts[i].name,
                       analysis |-> tasks[i].analysis]
           done == SelectSeq([i \in 1..Len(tasks) |-> Mark(i)], IsDone)
       IN all_analyses' = [i \in 1..Len(done) |->
                             [expert_name |-> done[i].expert_name,
                              analysis |-> done[i].analysis]]
    /\ IF chain_iteration < chain_max_iterations - 1
       THEN pc' = "chain_supplement" /\ UNCHANGED chain_iteration
       ELSE pc' = "chain_consensus" /\ chain_iteration' = chain_iteration + 1
    /\ UNCHANGED <<store, search_plugins, max_iterations, consensus_threshold,
                   chain_max_iterations, expert_names, cache, current_query,
                   all_search_results, iteration, result, consensus_score,
                   experts, stock_context, context, search_results, tasks,
                   first_failed, outcome, error, returned, terminal_state,
                   calls, rounds_done, gap_log, pm_result, failed_experts,
                   vars_pure>>

\* await asyncio.gather(*tasks) returns once every task has returned
GatherReturn ==
    /\ pc = "chain_gather"
    /\ \A i \in 1..Len(tasks) : tasks[i].st = "done"
    /\ all_analyses' = Analyses(experts, tasks)
    /\ IF chain_iteration < chain_max_iterations - 1
       THEN pc' = "chain_supplement" /\ UNCHANGED chain_iteration
       ELSE pc' = "chain_consensus" /\ chain_iteration' = chain_iteration + 1
    /\ UNCHANGED <<store, search_plugins, max_iterations, consensus_threshold,
                   chain_max_iterations, expert_names, cache, current_query,
                   all_search_results, iteration, result, consensus_score,
                   experts, stock_context, context, search_results, tasks,
                   first_failed, outcome, error, returned, terminal_state,
                   calls, rounds_done, gap_log,
                   pm_result, failed_experts, vars_pure>>

\* await asyncio.gather(*tasks) raises the first exception as soon as one
\* task has raised; the other tasks are not cancelled. Neither chain.run nor
\* IterativeAnalyzer.run catches it.
GatherRaise ==
    /\ pc = "chain_gather"
    /\ first_failed # 0
    /\ Raise(GenerationError)
    /\ UNCHANGED <<store, search_plugins, max_iterations, consensus_threshold,
                   chain_max_iterations, expert_names, cache, current_query,
                   all_search_results, iteration, result, consensus_score,
                   experts, stock_context, context, search_results,
                   chain_iteration, all_analyses, tasks, first_failed,
                   terminal_state, calls, rounds_done, gap_log,
                   pm_result, failed_experts, vars_pure>>

\* await self.search(supplement_query, important=True) between two fan-outs
ChainSupplement ==
    /\ pc = "chain_supplement"
    /\ \E reply \in ProviderReplies :
         pm_result' = PluginManager_search(search_plugins, Engine(TRUE), reply)
    /\ calls' = [calls EXCEPT !.search = @ + 1]
    /\ pc' = "chain_supplement_done"
    /\ UNCHANGED <<store, search_plugins, max_iterations, consensus_threshold,
                   chain_max_iterations, expert_names, cache, current_query,
                   all_search_results, iteration, result, consensus_score,
                   experts, stock_context, context, search_results,
                   chain_iteration, all_analyses, tasks, first_failed, outcome,
                   error, returned, terminal_state, rounds_done, gap_log,
                   failed_experts, vars_pure>>

\* the supplemental search returns: its first three results join the
\* context; the for loop goes on to the next fan-out
ChainSupplementDone ==
    /\ pc = "chain_supplement_done"
    /\ LET new_results == search(pm_result)
       IN IF new_results.raised
          THEN /\ Raise([kind |-> new_results.kind, expert |-> ""])
               /\ UNCHANGED <<search_results, context, chain_iteration>>
          ELSE /\ IF new_results.value # <<>>
                  THEN /\ search_results' =
                            search_results \o Take(new_results.value, SuppSnippets)
                       /\ context' = context \o Take(new_results.value, SuppSnippets)
                  ELSE UNCHANGED <<search_results, context>>
               /\ chain_iteration' = chain_iteration + 1
               /\ pc' = "chain_fanout"
               /\ UNCHANGED <<outcome, error, returned>>
    /\ pm_result' = NoCall
    /\ UNCHANGED <<store, search_plugins, max_iterations, consensus_threshold,
                   chain_max_iterations, expert_names, cache, current_query,
                   all_search_results, iteration, result, consensus_score,
                   experts, stock_context, all_analyses, tasks, first_failed,
                   terminal_state, calls, rounds_done, gap_log, failed_experts,
                   vars_pure>>

\* generate_consensus raises: the exception leaves chain.run and run
ConsensusFail ==
    /\ pc = "chain_consensus"
    /\ calls' = [calls EXCEPT !.generate = @ + 1]
    /\ Raise(GenerationError)
    /\ UNCHANGED <<store, search_plugins, max_iterations, consensus_threshold,
                   chain_max_iterations, expert_names, cache, current_query,
                   all_search_results, iteration, result, consensus_score,
                   experts, stock_context, context, search_results,
                   chain_iteration, all_analyses, tasks, first_failed,
                   terminal_state, rounds_done, gap_log,
                   pm_result, failed_experts, vars_pure>>

\* generate_consensus returns; chain.run returns its AnalysisResult and its
\* locals are gone; run accumulates the search results and computes the
\* consensus score
ChainReturn ==
    /\ pc = "chain_consensus"
    /\ calls' = [calls EXCEPT !.generate = @ + 1]
    /\ result' = [question |-> current_query,
                  search_results |-> search_results,
                  expert_analyses |-> all_analyses,
                  consensus |-> "consensus",
                  iteration_count |-> chain_max_iterations]
    /\ all_search_results' = all_search_results \o search_results
    /\ consensus_score' = calculate_consensus(all_analyses)
    /\ rounds_done' = rounds_done + 1
    /\ stock_context' = FALSE
    /\ context' = <<>>
    /\ search_results' = <<>>
    /\ chain_iteration' = 0
    /\ all_analyses' = <<>>
    /\ tasks' = <<>>
    /\ first_failed' = 0
    /\ pc' = "iter_decide"
    /\ UNCHANGED <<store, search_plugins, max_iterations, consensus_threshold,
                   chain_max_iterations, expert_names, cache, current_query,
                   iteration, experts, outcome, error, returned, terminal_state,
                   gap_log,
                   pm_result, failed_experts, vars_pure>>

UnchangedByDecision ==
    UNCHANGED <<store, search_plugins, max_iterations, consensus_threshold,
                chain_max_iterations, expert_names, cache, all_search_results,
                iteration, consensus_score, experts, stock_context, context,
                search_results, chain_iteration, all_analyses, tasks,
                first_failed, rounds_done, pm_result, failed_experts, vars_pure>>

\* if consensus_score >= self.consensus_threshold: ... return result
ConsensusReached ==
    /\ pc = "iter_decide"
    /\ ScoreAtLeast(consensus_score, consensus_threshold)
    /\ Finish("CONSENSUS_REACHED")
    /\ UNCHANGED <<current_query, calls, gap_log>>
    /\ UnchangedByDecision

\* a variant that asks the gap identifier before giving up
BudgetExhausted_AfterGaps ==
    /\ pc = "iter_decide"
    /\ ~ScoreAtLeast(consensus_score, consensus_threshold)
    /\ ~(iteration < max_iterations)
    /\ calls' = [calls EXCEPT !.generate = @ + 1, !.gaps = @ + 1]
    /\ Finish("BUDGET_EXHAUSTED")
    /\ UNCHANGED <<current_query, gap_log>>
    /\ UnchangedByDecision

\* the while condition fails after the last round: lines 208-212
BudgetExhausted ==
    /\ pc = "iter_decide"
    /\ ~ScoreAtLeast(consensus_score, consensus_threshold)
    /\ ~(iteration < max_iterations)
    /\ Finish("BUDGET_EXHAUSTED")
    /\ UNCHANGED <<current_query, calls, gap_log>>
    /\ UnchangedByDecision

\* _identify_gaps: the generation call raises
IdentifyGapsFail ==
    /\ pc = "iter_decide"
    /\ ~ScoreAtLeast(consensus_score, consensus_threshold)
    /\ iteration < max_iterations
    /\ calls' = [calls EXCEPT !.generate = @ + 1, !.gaps = @ + 1]
    /\ Raise(GenerationError)
    /\ UNCHANGED <<current_query, result, terminal_state, gap_log>>
    /\ UnchangedByDecision

\* a variant that starts the next round although no query was proposed
NoNewQueries_Continue ==
    /\ pc = "iter_decide"
    /\ ~ScoreAtLeast(consensus_score, consensus_threshold)
    /\ iteration < max_iterations
    /\ \E reply \in GapReplies :
         /\ identify_gaps(reply).queries = <<>>
         /\ gap_log' = Append(gap_log, identify_gaps(reply).queries)
    /\ calls' = [calls EXCEPT !.generate = @ + 1, !.gaps = @ + 1]
    /\ pc' = "iter_loop"
    /\ UNCHANGED <<current_query, result, outcome, error, returned, terminal_state>>
    /\ UnchangedByDecision

\* _identify_gaps returns no supplemental query: return result
NoNewQueries ==
    /\ pc = "iter_decide"
    /\ ~ScoreAtLeast(consensus_score, consensus_threshold)
    /\ iteration < max_iterations
    /\ \E reply \in GapReplies :
         /\ identify_gaps(reply).queries = <<>>
         /\ gap_log' = Append(gap_log, identify_gaps(reply).queries)
    /\ calls' = [calls EXCEPT !.generate = @ + 1, !.gaps = @ + 1]
    /\ Finish("NO_NEW_QUERIES")
    /\ UNCHANGED current_query
    /\ UnchangedByDecision

\* a variant whose next question is the digest alone
NextRound_DigestOnly ==
    /\ pc = "iter_decide"
    /\ ~ScoreAtLeast(consensus_score, consensus_threshold)
    /\ iteration < max_iterations
    /\ \E reply \in GapReplies :
         /\ identify_gaps(reply).queries # <<>>
         /\ gap_log' = Append(gap_log, identify_gaps(reply).queries)
         /\ current_query' = Take(identify_gaps(reply).queries, DigestLen)
    /\ calls' = [calls EXCEPT !.generate = @ + 1, !.gaps = @ + 1]
    /\ pc' = "iter_loop"
    /\ UNCHANGED <<result, outcome, error, returned, terminal_state>>
    /\ UnchangedByDecision

\* _identify_gaps returns supplemental queries: the next round's question is
\* the original query followed by the first two of them
NextRound ==
    /\ pc = "iter_decide"
    /\ ~ScoreAtLeast(consensus_score, consensus_threshold)
    /\ iteration < max_iterations
    /\ \E reply \in GapReplies :
         /\ identify_gaps(reply).queries # <<>>
         /\ gap_log' = Append(gap_log, identify_gaps(reply).queries)
         /\ current_query' =
              query \o <<DigestLabel>> \o Take(identify_gaps(reply).queries, DigestLen)
    /\ calls' = [calls EXCEPT !.generate = @ + 1, !.gaps = @ + 1]
    /\ pc' = "iter_loop"
    /\ UNCHANGED <<result, outcome, error, returned, terminal_state>>
    /\ UnchangedByDecision

Next ==
    \/ IterBegin
    \/ ChainLoad
    \/ ChainStock
    \/ ChainSearch
    \/ ChainSearchDone
    \/ ChainFanout
    \/ \E i \in 1..MaxExperts : TaskDone(i)
    \/ \E i \in 1..MaxExperts : TaskFail(i)
    \/ GatherReturn
    \/ GatherRaise
    \/ ChainSupplement
    \/ ChainSupplementDone
    \/ ConsensusFail
    \/ ChainReturn
    \/ ConsensusReached
    \/ BudgetExhausted
    \/ IdentifyGapsFail
    \/ NoNewQueries
    \/ NextRound

Spec == Init /\ [][Next]_vars

\* =====================================================================
\* Two IterativeAnalyzer runs side by side: the second is given the same
\* question, experts and replies in round 1, and has its own threshold and
\* round budget
\* =====================================================================
InitTwin ==
    /\ InitRun
    /\ \E thr \in Thresholds, budget \in 1..MaxRounds :
         twin = [consensus_threshold |-> thr, max_iterations |-> budget,
                 outcome |-> "running", terminal_state |-> "RUNNING",
                 returned |-> None]

\* lines 185-212 for the second run: its terminal branch, or its going on
TwinDecide ==
    /\ pc = "iter_decide"
    /\ iteration = 1
    /\ twin.outcome = "running"
    /\ \E reply \in GapReplies :
         LET state == IF ScoreAtLeast(consensus_score, twin.consensus_threshold)
                      THEN "CONSENSUS_REACHED"
                      ELSE IF ~(iteration < twin.max_iterations)
                      THEN "BUDGET_EXHAUSTED"
                      ELSE IF identify_gaps(reply).queries = <<>>
                      THEN "NO_NEW_QUERIES"
                      ELSE "RUNNING"
             d == list_set(all_search_results)
         IN twin' = IF state = "RUNNING"
                    THEN [twin EXCEPT !.outcome = "continued"]
                    ELSE IF d.raised
                    THEN [twin EXCEPT !.outcome = "raised", !.terminal_state = state]
                    ELSE [twin EXCEPT !.outcome = "returned",
                                      !.terminal_state = state,
                                      !.returned = [result EXCEPT
                                                      !.iteration_count = iteration,
                                                      !.search_results = d.value]]
    /\ UNCHANGED <<vars_run, vars_gap, vars_consensus, vars_catalog, vars_setup>>

NextTwin ==
    \/ Next
    \/ TwinDecide

SpecTwin == InitTwin /\ [][NextTwin]_vars

\* =====================================================================
\* A run of two experts whose fan-out contexts are recorded
\* =====================================================================
InitContext ==
    /\ store = <<ExpB, BadDoc, ExpA>>
    /\ expert_names = <<"B", "A">>
    /\ search_plugins \in Registries
    /\ max_iterations_arg \in {Some(n) : n \in 1..MaxRounds}
    /\ consensus_threshold = 800
    /\ chain_max_iterations \in 1..MaxChainIter
    /\ InitLocals
    /\ calls = [NoCalls EXCEPT !.watch_contexts = TRUE]
    /\ pc = "iter_loop"
    /\ GapIdle
    /\ ConsensusIdle
    /\ CatalogIdle
    /\ PluginIdle
    /\ twin = NoTwin

SpecContext == InitContext /\ [][Next]_vars

\* =====================================================================
\* Runs over catalogs of three and of five experts, without a search provider
\* =====================================================================
FiveExperts == <<ExpA, ExpB, ExpHi, ExpNeg, ExpMacro>>

ThreeExperts == <<ExpA, ExpHi, ExpB>>

SelectInputs ==
    { [names |-> <<>>, docs |-> FiveExperts, rounds |-> 2, batches |-> 1] }
    \cup { [names |-> <<"M", "A">>, docs |-> FiveExperts, rounds |-> r, batches |-> b] :
              r \in 1..MaxRounds, b \in 1..MaxChainIter }
    \cup { [names |-> <<>>, docs |-> ThreeExperts, rounds |-> r, batches |-> 1] :
              r \in 1..MaxRounds }

InitSelect ==
    /\ \E inp \in SelectInputs :
         /\ store = inp.docs
         /\ expert_names = inp.names
         /\ max_iterations_arg = Some(inp.rounds)
         /\ chain_max_iterations = inp.batches
    /\ search_plugins = <<>>
    /\ consensus_threshold = 800
    /\ InitIdle
    /\ pc = "iter_loop"
    /\ GapIdle
    /\ ConsensusIdle
    /\ CatalogIdle
    /\ PluginIdle
    /\ twin = NoTwin

SpecSelect == InitSelect /\ [][Next]_vars

\* =====================================================================
\* _identify_gaps applied to every response up to MaxRawLen tokens
\* =====================================================================
InitGap ==
    /\ store = <<>>
    /\ expert_names = <<>>
    /\ search_plugins = <<>>
    /\ max_iterations_arg = Some(1)
    /\ consensus_threshold = 800
    /\ chain_max_iterations = 1
    /\ InitIdle
    /\ pc = "gap_call"
    /\ raw \in SeqsUpTo(RawTokens, MaxRawLen)
    /\ gap_report = None
    /\ ConsensusIdle
    /\ CatalogIdle
    /\ PluginIdle
    /\ twin = NoTwin

\* result = await llm.generate(...) has returned raw; the parsing follows
IdentifyGaps ==
    /\ pc = "gap_call"
    /\ gap_report' = identify_gaps(raw)
    /\ pc' = "gap_done"
    /\ UNCHANGED <<store, search_plugins, max_iterations, consensus_threshold,
                   chain_max_iterations, expert_names, cache, current_query,
                   all_search_results, iteration, result, consensus_score,
                   experts, stock_context, context, search_results,
                   chain_iteration, all_analyses, tasks, first_failed,
                   pm_result, outcome, error, returned, terminal_state, calls,
                   rounds_done, gap_log, failed_experts, raw,
                   vars_consensus, vars_catalog, twin, vars_setup>>

NextGap == IdentifyGaps

SpecGap == InitGap /\ [][NextGap]_vars

\* the run's variables, the store apart, in a specification that makes no run
RunIdle ==
    /\ expert_names = <<>>
    /\ search_plugins = <<>>
    /\ max_iterations_arg = Some(1)
    /\ consensus_threshold = 800
    /\ chain_max_iterations = 1
    /\ InitIdle

UnchangedRun == UNCHANGED <<store, search_plugins, max_iterations,
                            consensus_threshold, chain_max_iterations,
                            expert_names, cache, current_query,
                            all_search_results, iteration, result,
                            consensus_score, experts, stock_context, context,
                            search_results, chain_iteration, all_analyses,
                            tasks, first_failed, pm_result, outcome, error,
                            returned, terminal_state, calls, rounds_done,
                            gap_log, failed_experts>>

\* =====================================================================
\* _calculate_consensus applied to every list of up to MaxAnalyses analyses
\* =====================================================================
\* the words an analysis text (lower-cased) is made of; "x" is any other word
ConsensusWords == {"agree", "differ", "disagree", "x"}

AnalysisLists ==
    SeqsUpTo({[expert_name |-> "A", analysis |-> t] :
                 t \in SeqsUpTo(ConsensusWords, MaxTextLen)}, MaxAnalyses)

InitConsensus ==
    /\ RunIdle
    /\ store = <<>>
    /\ pc = "consensus_call"
    /\ analyses \in AnalysisLists
    /\ score = <<0, 1>>
    /\ GapIdle
    /\ CatalogIdle
    /\ PluginIdle
    /\ twin = NoTwin

CalculateConsensus ==
    /\ pc = "consensus_call"
    /\ score' = calculate_consensus(analyses)
    /\ pc' = "consensus_done"
    /\ UnchangedRun
    /\ UNCHANGED <<analyses, vars_gap, vars_catalog, twin, vars_setup>>

NextConsensus == CalculateConsensus

SpecConsensus == InitConsensus /\ [][NextConsensus]_vars

\* =====================================================================
\* Runs of two experts for every way of giving the round budget
\* =====================================================================
BudgetArgs == {None, Some(0)} \cup {Some(n) : n \in 1..MaxRounds}

InitBudget ==
    /\ store = <<ExpB, BadDoc, ExpA>>
    /\ expert_names = <<"B", "A">>
    /\ search_plugins = <<>>
    /\ max_iterations_arg \in BudgetArgs
    /\ consensus_threshold = 800
    /\ chain_max_iterations \in 1..MaxChainIter
    /\ InitIdle
    /\ pc = "iter_loop"
    /\ GapIdle
    /\ ConsensusIdle
    /\ CatalogIdle
    /\ PluginIdle
    /\ twin = NoTwin

SpecBudget == InitBudget /\ [][Next]_vars

\* =====================================================================
\* The score on its own, and runs whose threshold is an end of its range
\* =====================================================================
ScoreThresholds == {500, 1000}

InitThreshold ==
    /\ store = <<ExpB, BadDoc, ExpA>>
    /\ expert_names \in { <<"B", "A">>, <<"U", "A">> }
    /\ search_plugins = <<>>
    /\ max_iterations_arg \in {Some(n) : n \in 1..MaxRounds}
    /\ consensus_threshold \in ScoreThresholds
    /\ chain_max_iterations \in 1..MaxChainIter
    /\ InitIdle
    /\ pc = "iter_loop"
    /\ GapIdle
    /\ ConsensusIdle
    /\ CatalogIdle
    /\ PluginIdle
    /\ twin = NoTwin

InitScore ==
    \/ InitConsensus
    \/ InitThreshold

NextScore ==
    \/ CalculateConsensus
    \/ Next

SpecScore == InitScore /\ [][NextScore]_vars

\* =====================================================================
\* PluginManager.register on its own: calls in any order
\* =====================================================================
\* largest number of instances of one class and name
MaxInstances == 2

PluginNames == {"duckduckgo", "wechat"}

\* the class of a plugin: a SearchPlugin, an ExportPlugin, or another Plugin
PluginKinds == {"search", "export", "other"}

PluginInstances ==
    [name : PluginNames, kind : PluginKinds, id : 1..MaxInstances]

\* PluginManager.register: the dicts afterwards
register(pm, plugin) ==
    [all |-> DictPut(pm.all, plugin),
     search |-> IF plugin.kind = "search" THEN DictPut(pm.search, plugin) ELSE pm.search,
     export |-> IF plugin.kind = "export" THEN DictPut(pm.export, plugin) ELSE pm.export]

InitPlugins ==
    /\ RunIdle
    /\ store = <<>>
    /\ pc = "plugins"
    /\ GapIdle
    /\ ConsensusIdle
    /\ CatalogIdle
    /\ PluginIdle
    /\ twin = NoTwin

Register ==
    /\ pc = "plugins"
    /\ \E plugin \in PluginInstances : plugins' = register(plugins, plugin)
    /\ UnchangedRun
    /\ UNCHANGED <<pc, vars_gap, vars_consensus, vars_catalog, twin, max_iterations_arg>>

NextPlugins == Register

SpecPlugins == InitPlugins /\ [][NextPlugins]_vars

\* =====================================================================
\* ExpertLoader on its own: calls in any order, with a store that loses
\* documents between them
\* =====================================================================
CatalogDocs == {ExpA, ExpB, ExpHi, ExpNeg, ExpA2}

\* the EXPERT.md documents in the order iterdir() yields them; <<>> is also
\* the store whose directory does not exist
Stores == SeqsUpTo(CatalogDocs, MaxStoreLen)

\* the query text, as the set of the domain keywords it contains
CatalogQueries == { {"stock"}, {} }

CatalogNames == {"A", "U"}

Limits == (-1)..MaxLimit

InitCatalog ==
    /\ RunIdle
    /\ pc = "catalog"
    /\ store \in Stores
    /\ GapIdle
    /\ ConsensusIdle
    /\ CatalogIdle
    /\ PluginIdle
    /\ twin = NoTwin

\* the store at the last scan, after a call that found the cache c
Scanned(c, reload) == IF c # <<>> /\ ~reload THEN catalog_op.scanned ELSE store

UnchangedByCatalog ==
    /\ UNCHANGED <<search_plugins, max_iterations, consensus_threshold,
                   chain_max_iterations, expert_names, current_query,
                   all_search_results, iteration, result, consensus_score,
                   experts, stock_context, context, search_results,
                   chain_iteration, all_analyses, tasks, first_failed,
                   pm_result, pc, outcome, error, returned, terminal_state,
                   calls, rounds_done, gap_log, failed_experts>>
    /\ UNCHANGED <<vars_gap, vars_consensus, twin, vars_setup>>

LoadAll ==
    /\ pc = "catalog"
    /\ \E reload \in BOOLEAN :
         /\ cache' = load_all(cache, store, reload).cache
         /\ catalog_ret' = load_all(cache, store, reload).ret
         /\ catalog_op' = [op |-> "load_all", reload |-> reload, words |-> {},
                           limit |-> 0, name |-> "",
                           scanned |-> Scanned(cache, reload), before |-> cache,
                           reloaded |-> catalog_op.reloaded \/ reload]
    /\ UNCHANGED store
    /\ UnchangedByCatalog

GetExpert ==
    /\ pc = "catalog"
    /\ \E name \in CatalogNames :
         /\ cache' = get_expert_cache(cache, store)
         /\ catalog_ret' = get_expert(cache, store, name)
         /\ catalog_op' = [op |-> "get_expert", reload |-> FALSE, words |-> {},
                           limit |-> 0, name |-> name,
                           scanned |-> Scanned(cache, FALSE), before |-> cache,
                           reloaded |-> catalog_op.reloaded]
    /\ UNCHANGED store
    /\ UnchangedByCatalog

FindRelevantExperts ==
    /\ pc = "catalog"
    /\ \E words \in CatalogQueries, limit \in Limits :
         /\ cache' = load_all(cache, store, FALSE).cache
         /\ catalog_ret' = find_relevant_experts(cache, store, words, limit)
         /\ catalog_op' = [op |-> "find_relevant_experts", reload |-> FALSE,
                           words |-> words, limit |-> limit, name |-> "",
                           scanned |-> Scanned(cache, FALSE), before |-> cache,
                           reloaded |-> catalog_op.reloaded]
    /\ UNCHANGED store
    /\ UnchangedByCatalog

\* between two calls an expert directory is removed
StoreRemove ==
    /\ pc = "catalog"
    /\ \E i \in 1..Len(store) :
         store' = SubSeq(store, 1, i - 1) \o SubSeq(store, i + 1, Len(store))
    /\ UNCHANGED <<cache, vars_catalog>>
    /\ UnchangedByCatalog

\* between two calls an EXPERT.md stops being parsable
StoreCorrupt ==
    /\ pc = "catalog"
    /\ \E i \in 1..Len(store) :
         /\ store[i].valid
         /\ store' = [store EXCEPT ![i].valid = FALSE]
    /\ UNCHANGED <<cache, vars_catalog>>
    /\ UnchangedByCatalog

\* between two calls experts_dir disappears
StoreMissing ==
    /\ pc = "catalog"
    /\ store # <<>>
    /\ store' = <<>>
    /\ UNCHANGED <<cache, vars_catalog>>
    /\ UnchangedByCatalog

NextCatalog ==
    \/ LoadAll
    \/ GetExpert
    \/ FindRelevantExperts
    \/ StoreRemove
    \/ StoreCorrupt
    \/ StoreMissing

SpecCatalog == InitCatalog /\ [][NextCatalog]_vars

\* =====================================================================
\* Properties
\* =====================================================================
NoDuplicates(s) == \A i, j \in 1..Len(s) : i # j => s[i] # s[j]

Names(es) == [i \in 1..Len(es) |-> es[i].name]

AnalysisNames(as) == [i \in 1..Len(as) |-> as[i].expert_name]

\* the round's expert selection has been made
Selected == rounds_done >= 1 \/ (iteration >= 1 /\ pc # "chain_load")

\* the names of the parsable documents of the store
ValidNames(docs) == {docs[i].name : i \in {j \in 1..Len(docs) : docs[j].valid}}

\* every _identify_gaps call so far returned an empty query list
AllGapsEmpty == \A i \in 1..Len(gap_log) : gap_log[i] = <<>>

\* C1: a run that returns a result has executed at most max_iterations rounds,
\* and the iteration_count of the result is the number of rounds executed,
\* which is at least 1, in every terminal branch.
C1_IterationCountIsRoundsExecuted ==
    /\ rounds_done <= max_iterations
    /\ iteration <= max_iterations
    /\ outcome = "returned" =>
         /\ returned.iteration_count = rounds_done
         /\ 1 <= returned.iteration_count
         /\ returned.iteration_count <= max_iterations

C1_Witness ==
    /\ outcome = "returned"
    /\ terminal_state = "BUDGET_EXHAUSTED"
    /\ rounds_done = 2
    /\ chain_max_iterations = 1

\* C2: with consensus_threshold 0.0 a run whose first round completes ends
\* after round 1 in the consensus-reached branch, returns a result with
\* iteration_count 1 and never invokes the gap identifier.
C2_ZeroThresholdReturnsAfterRoundOne ==
    (consensus_threshold = 0 /\ rounds_done >= 1 /\ pc = "done") =>
        /\ rounds_done = 1
        /\ calls.gaps = 0
        /\ terminal_state = "CONSENSUS_REACHED"
        /\ outcome = "returned"
        /\ returned.iteration_count = 1

\* C3 as stated: if the gap identifier returns an empty query list every time,
\* a run that takes a terminal transition does so at or before round 2 and
\* its terminal state is NO_NEW_QUERIES.
C3_Original ==
    (AllGapsEmpty /\ terminal_state # "RUNNING") =>
        /\ rounds_done <= 2
        /\ terminal_state = "NO_NEW_QUERIES"

\* C3 amended: if the gap identifier returns an empty query list every time,
\* no second round starts; the terminal state is NO_NEW_QUERIES exactly when
\* the gap identifier was invoked, CONSENSUS_REACHED when the score of round 1
\* reached the threshold, and BUDGET_EXHAUSTED when it did not and the budget
\* is one round.
C3_EmptyGapsEndInRoundOne ==
    AllGapsEmpty =>
        /\ iteration <= 1
        /\ rounds_done <= 1
        /\ terminal_state # "RUNNING" =>
             /\ rounds_done = 1
             /\ (terminal_state = "NO_NEW_QUERIES") = (Len(gap_log) = 1)
             /\ (terminal_state = "CONSENSUS_REACHED") =
                   ScoreAtLeast(consensus_score, consensus_threshold)
             /\ (terminal_state = "BUDGET_EXHAUSTED") =
                   (/\ ~ScoreAtLeast(consensus_score, consensus_threshold)
                    /\ max_iterations = 1)

C3_Witness ==
    /\ terminal_state = "NO_NEW_QUERIES"
    /\ gap_log = << <<>> >>
    /\ max_iterations = 2

\* the first "{" to the last "}" of the response parses as the JSON object
ParsesAsObject(r) ==
    \E i, j \in 1..Len(r) :
        /\ i < j
        /\ r[i] = "{"
        /\ r[j] = "}"
        /\ \A k \in 1..(i - 1) : r[k] # "{"
        /\ \A k \in (j + 1)..Len(r) : r[k] # "}"
        /\ JsonLoadsOk(SubSeq(r, i, j))

\* C4: for a response that cannot be parsed as the JSON object, also one
\* without "{" or without "}", _identify_gaps returns exactly one gap entry,
\* the response truncated to 200, and no supplemental query.
C4_MalformedYieldsOneGap ==
    (gap_report # None /\ ~ParsesAsObject(raw)) =>
        /\ gap_report.gaps = <<Take(raw, GapTruncLen)>>
        /\ gap_report.queries = <<>>

\* C5: when exactly one expert's generation call raises in a fan-out, the
\* error that reaches the caller is ExpertAnalysisFailed and names that expert.
C5_FailureNamesTheExpert ==
    (/\ outcome = "raised"
     /\ first_failed # 0
     /\ Cardinality({i \in 1..Len(tasks) : tasks[i].st = "failed"}) = 1) =>
        /\ error.kind = "ExpertAnalysisFailed"
        /\ error.expert = experts[first_failed].name

\* C6: once an expert's generation call has raised, in whichever round, the
\* run returns no AnalysisResult: nothing of that round reaches the caller.
C6_RoundsAreAllOrNothing ==
    /\ failed_experts # {} => (outcome # "returned" /\ returned = None)
    /\ returned # None => outcome = "returned"

C6_Witness ==
    /\ outcome = "raised"
    /\ failed_experts # {}
    /\ rounds_done >= 1
    /\ \E i \in 1..Len(tasks) : tasks[i].st = "done"

\* C7: after every completed round the analysis list has one ExpertAnalysis
\* per selected expert, in the order of the expert list, and no expert name
\* occurs twice in it.
C7_OneAnalysisPerExpert ==
    pc = "iter_decide" =>
        /\ AnalysisNames(result.expert_analyses) = Names(experts)
        /\ NoDuplicates(AnalysisNames(result.expert_analyses))

\* C8: on every terminal transition the run returns a result whose
\* search_results are the accumulated search results without duplicates.
C8_TerminalResultIsDeduplicated ==
    terminal_state # "RUNNING" =>
        /\ outcome = "returned"
        /\ Range(returned.search_results) = Range(all_search_results)
        /\ NoDuplicates(returned.search_results)

\* C9: when no supplied name is known or the catalog is empty, the run fails
\* with the no-experts ValueError before any market-data, retrieval or
\* generation call and returns nothing; when some supplied names are known,
\* the unknown ones are dropped and the run goes on with the known ones.
C9_NoExpertsFailsFirst ==
    LET known == ValidNames(store)
        IsKnown(n) == n \in known
        empty == \/ known = {}
                 \/ (expert_names # <<>> /\ Range(expert_names) \cap known = {})
    IN /\ (Selected /\ empty) =>
            /\ outcome = "raised"
            /\ error.kind = "ValueError"
            /\ returned = None
            /\ calls = NoCalls
       /\ (Selected /\ ~empty) => error.kind # "ValueError"
       /\ (Selected /\ ~empty /\ expert_names # <<>>) =>
            Names(experts) = SelectSeq(expert_names, IsKnown)

C9_Witness ==
    /\ outcome = "raised"
    /\ error.kind = "ValueError"
    /\ expert_names = <<"U">>
    /\ ValidNames(store) # {}

\* C10: a retrieval whose provider raises, whose named engine is not
\* registered, or for which no provider is registered raises inside
\* PluginManager.search; AnalysisChain.search then returns [] and the round
\* goes on to the expert fan-out with the context it already has.
C10_RetrievalNeverAborts ==
    [][ /\ (pc = "chain_supplement_done" /\ "tavily" \notin Range(search_plugins))
            => pm_result.raised
        /\ (pc = "chain_search_done" /\ search_plugins = <<>>) => pm_result.raised
        /\ (pc \in {"chain_search_done", "chain_supplement_done"} /\ pm_result.raised) =>
            /\ outcome' = "running"
            /\ pc' = "chain_fanout"
            /\ pc = "chain_search_done" =>
                 /\ search_results' = <<>>
                 /\ context' = FirstContext(stock_context, <<>>)
            /\ pc = "chain_supplement_done" =>
                 /\ search_results' = search_results
                 /\ context' = context
      ]_vars

C10_Witness ==
    /\ pc = "chain_gather"
    /\ chain_iteration = 1
    /\ search_plugins = <<"duckduckgo">>
    /\ search_results = <<"r1", "r2">>
    /\ context = <<"SEARCH", "r1", "r2">>

\* the occurrences of the keywords kws in the texts of the analyses:
\* <<analysis, word, keyword>> positions
KeywordHits(as, kws) ==
    UNION { { <<i, p[1], p[2]>> :
                p \in { q \in (1..Len(as[i].analysis)) \X (1..Len(kws)) :
                           Occurs(kws[q[2]], as[i].analysis[q[1]]) = 1 } } :
            i \in 1..Len(as) }

Agreement(as) == Cardinality(KeywordHits(as, agreement_keywords))

Disagreement(as) == Cardinality(KeywordHits(as, disagreement_keywords))

\* C13: for a list of fewer than 2 analyses, whatever their text, the
\* consensus score is exactly 1.0.
C13_FewerThanTwoIsOne ==
    (pc = "consensus_done" /\ Len(analyses) < 2) => score = <<1, 1>>

C13_Witness ==
    /\ pc = "consensus_done"
    /\ Len(analyses) = 1
    /\ Agreement(analyses) = 0
    /\ Disagreement(analyses) = 1
    /\ score = <<1, 1>>

\* C14 as stated: for every list of analyses without any occurrence of an
\* agreement or disagreement keyword, the consensus score is exactly 0.7.
C14_Original ==
    (/\ pc = "consensus_done"
     /\ Agreement(analyses) + Disagreement(analyses) = 0) =>
        score[1] * 10 = 7 * score[2]

\* C14 amended: for every list of at least 2 analyses without any occurrence
\* of an agreement or disagreement keyword the consensus score is exactly 0.7;
\* for fewer than 2 analyses it is 1.0.
C14_NoKeywordsIsSevenTenths ==
    (/\ pc = "consensus_done"
     /\ Agreement(analyses) + Disagreement(analyses) = 0) =>
        IF Len(analyses) >= 2
        THEN score[1] * 10 = 7 * score[2]
        ELSE score[1] = score[2]

C14_Witness ==
    /\ pc = "consensus_done"
    /\ Len(analyses) = 3
    /\ analyses[1].analysis = <<"x">>
    /\ analyses[2].analysis = <<>>
    /\ score = <<7, 10>>

\* C15: the consensus score lies in [0.0, 1.0] for every list of analyses,
\* and with at least 2 analyses and at least one keyword occurrence it equals
\* 0.5 + 0.5 * agreement / (agreement + disagreement + 1).
C15_ScoreInRangeAndFormula ==
    pc = "consensus_done" =>
        /\ score[2] > 0
        /\ 0 <= score[1]
        /\ score[1] <= score[2]
        /\ (/\ Len(analyses) >= 2
            /\ Agreement(analyses) + Disagreement(analyses) >= 1) =>
              score[1] * 2 * (Agreement(analyses) + Disagreement(analyses) + 1)
                = score[2] * (2 * Agreement(analyses) + Disagreement(analyses) + 1)

C15_Witness ==
    /\ pc = "consensus_done"
    /\ Len(analyses) = 2
    /\ Agreement(analyses) = 2
    /\ Disagreement(analyses) = 1
    /\ score = <<6, 8>>

\* the sort key the catalog contract gives an expert for a query
SortKey(e, words) ==
    IF e.domains \cap words # {} THEN e.priority ELSE e.priority + 100

\* the experts the last call listed: the cache it found, or the parsable
\* documents of the store it scanned
Listed ==
    IF catalog_op.before # <<>>
    THEN catalog_op.before
    ELSE SelectSeq(catalog_op.scanned, IsValid)

\* the list r is the first n of the listed experts by ascending key, and its
\* matching experts precede the others
RelevantFirst(r, words, n) ==
    /\ Len(r) = Min(n, Len(Listed))
    /\ \A i, j \in 1..Len(r) : i < j => SortKey(r[i], words) <= SortKey(r[j], words)
    /\ \A i \in 1..Len(r) : r[i] \in Range(Listed)
    /\ \A e \in Range(Listed) \ Range(r) :
          \A i \in 1..Len(r) : SortKey(r[i], words) <= SortKey(e, words)
    /\ \A i, j \in 1..Len(r) :
          (i < j /\ r[j].domains \cap words # {}) => r[i].domains \cap words # {}

\* find_relevant_experts("stock outlook", 2) on the catalog {A, B}
SpecExample ==
    (/\ Range(Listed) = {ExpA, ExpB}
     /\ Len(Listed) = 2
     /\ catalog_op.words = {"stock"}
     /\ catalog_op.limit = 2) => catalog_ret = <<ExpA, ExpB>>

\* C11 as stated: for every catalog whose priorities do not exceed 99 and
\* every query and limit, find_relevant_experts returns min(limit, catalog
\* size) experts in ascending key order, matching experts first.
C11_Original ==
    (/\ catalog_op.op = "find_relevant_experts"
     /\ \A e \in Range(Listed) : e.priority <= 99) =>
        /\ RelevantFirst(catalog_ret, catalog_op.words, catalog_op.limit)
        /\ SpecExample

\* C11 amended: for every catalog whose priorities lie in 0..99 and every
\* query and limit >= 0, find_relevant_experts returns min(limit, catalog
\* size) experts in ascending key order, matching experts first; A (priority
\* 1, matches) and B (priority 2, no match) with limit 2 yield [A, B].
C11_RelevantExpertsFirst ==
    (/\ catalog_op.op = "find_relevant_experts"
     /\ catalog_op.limit >= 0
     /\ \A e \in Range(Listed) : e.priority \in 0..99) =>
        /\ RelevantFirst(catalog_ret, catalog_op.words, catalog_op.limit)
        /\ SpecExample

C11_Witness ==
    /\ catalog_op.op = "find_relevant_experts"
    /\ catalog_op.before = <<ExpB, ExpA>>
    /\ catalog_op.words = {"stock"}
    /\ catalog_op.limit = 2
    /\ catalog_ret = <<ExpA, ExpB>>

\* C12: every load_all call returns the experts in ascending order of
\* priority: the loading call, a call served from the cache, a reload.
C12_LoadAllIsSorted ==
    catalog_op.op = "load_all" =>
        \A i, j \in 1..Len(catalog_ret) :
            i < j => catalog_ret[i].priority <= catalog_ret[j].priority

\* C18: after load_all(reload=True) the cache holds exactly the experts parsed
\* from the store as it was at the reload: every cached record is the last
\* parsable document of its name, every parsable document's name is cached,
\* nothing else survives, and get_expert of an absent name returns None.
C18_ReloadReplacesCache ==
    LET docs == catalog_op.scanned
    IN /\ (catalog_op.reloaded /\ catalog_op.op # "none") =>
            /\ \A i \in 1..Len(cache) :
                  \E k \in 1..Len(docs) :
                      /\ docs[k] = cache[i]
                      /\ docs[k].valid
                      /\ \A m \in (k + 1)..Len(docs) :
                            docs[m].valid => docs[m].name # docs[k].name
            /\ \A i, j \in 1..Len(cache) : i # j => cache[i].name # cache[j].name
       /\ (catalog_op.op = "load_all" /\ catalog_op.reload) =>
            \A k \in 1..Len(docs) :
                docs[k].valid => \E i \in 1..Len(cache) : cache[i].name = docs[k].name
       /\ (/\ catalog_op.op = "get_expert"
           /\ catalog_op.reloaded
           /\ catalog_op.name \notin ValidNames(docs)) => catalog_ret = None

C18_Witness ==
    /\ catalog_op.op = "load_all"
    /\ catalog_op.reload
    /\ cache # <<>>
    /\ \E i \in 1..Len(catalog_op.before) :
          \A j \in 1..Len(cache) : cache[j].name # catalog_op.before[i].name

\* xs without the later occurrences of its elements
RECURSIVE FirstRetrieved(_)
FirstRetrieved(xs) ==
    IF xs = <<>> THEN <<>>
    ELSE LET front == FirstRetrieved(SubSeq(xs, 1, Len(xs) - 1))
         IN IF xs[Len(xs)] \in Range(front) THEN front ELSE Append(front, xs[Len(xs)])

\* C16: the references of a report are at most 5 search results, the first
\* ones in the order of retrieval: for the result of AnalysisChain.run, and
\* for the result IterativeAnalyzer.run returns on a terminal transition, where
\* they are the first 5 distinct results accumulated over the rounds.
C16_ReferencesAreFirstRetrieved ==
    /\ pc = "iter_decide" =>
         /\ Len(references(result)) <= 5
         /\ references(result) = SubSeq(result.search_results, 1, Len(references(result)))
    /\ terminal_state # "RUNNING" =>
         /\ outcome = "returned"
         /\ references(returned) = Take(FirstRetrieved(all_search_results), 5)

\* C19: the decision of a round is taken in the order consensus, budget, gap
\* identifier: a score at the threshold ends the run as consensus reached;
\* otherwise the last round ends it as budget exhausted without a gap call;
\* otherwise the gap identifier is called once, an empty query list ends the
\* run and a non-empty one leads to the start of the next round. Nothing
\* starts after a terminal transition, and a round starts only after the
\* previous round has returned and its decision has been taken.
C19_DecisionOrder ==
    [][ /\ pc = "iter_decide" =>
             IF ScoreAtLeast(consensus_score, consensus_threshold)
             THEN /\ terminal_state' = "CONSENSUS_REACHED"
                  /\ pc' = "done"
                  /\ calls'.gaps = calls.gaps
             ELSE IF iteration = max_iterations
             THEN /\ terminal_state' = "BUDGET_EXHAUSTED"
                  /\ pc' = "done"
                  /\ calls'.gaps = calls.gaps
             ELSE /\ calls'.gaps = calls.gaps + 1
                  /\ Len(gap_log') = Len(gap_log) + 1 =>
                       IF gap_log'[Len(gap_log')] = <<>>
                       THEN /\ terminal_state' = "NO_NEW_QUERIES"
                            /\ pc' = "done"
                       ELSE /\ terminal_state' = "RUNNING"
                            /\ pc' = "iter_loop"
                            /\ iteration' = iteration
        /\ pc = "iter_loop" => (iteration' = iteration + 1 /\ pc' = "chain_load")
        /\ calls.gaps <= rounds_done
        /\ terminal_state # "RUNNING" =>
             /\ pc = "done"
             /\ pc' = "done"
             /\ terminal_state' = terminal_state
             /\ iteration' = iteration
             /\ rounds_done' = rounds_done
             /\ calls' = calls
        /\ iteration' # iteration =>
             /\ iteration' = iteration + 1
             /\ rounds_done = iteration
             /\ Len(gap_log) = rounds_done
             /\ \A i \in 1..Len(gap_log) : gap_log[i] # <<>>
      ]_vars

C19_Witness ==
    /\ terminal_state = "BUDGET_EXHAUSTED"
    /\ iteration = 2
    /\ calls.gaps = 1
    /\ Len(gap_log) = 1
    /\ gap_log[1] = <<"policy", "macro", "stock">>

\* C20: no step of chain.run after the fan-out, and no return or raise to the
\* caller, happens while an expert call of the fan-out is still running.
C20_Barrier ==
    (\E i \in 1..Len(tasks) : tasks[i].st = "running") => pc = "chain_gather"

\* C17: two runs that end in different terminal states and are otherwise
\* identical (rounds, analyses, consensus text, search results) return values
\* the caller can tell apart.
C17_TerminalStateIsPreserved ==
    (/\ outcome = "returned"
     /\ twin.outcome = "returned"
     /\ twin.terminal_state # terminal_state
     /\ twin.returned.iteration_count = returned.iteration_count
     /\ twin.returned.expert_analyses = returned.expert_analyses
     /\ twin.returned.consensus = returned.consensus
     /\ twin.returned.search_results = returned.search_results) =>
        twin.returned # returned

\* C22: when the gap identifier has returned queries and the next round
\* starts, one retrieval call has been made for each supplemental query, on
\* top of the chain_max_iterations retrievals each completed round makes.
C22_OneRetrievalPerSupplementalQuery ==
    LET Sum(log) ==
          LET RECURSIVE S(_)
              S(k) == IF k = 0 THEN 0 ELSE Len(log[k]) + S(k - 1)
          IN S(Len(log))
    IN (pc = "chain_load" /\ iteration >= 2) =>
          calls.search = rounds_done * chain_max_iterations + Sum(gap_log)

\* C23: the question of round 1 is the original query; the question of every
\* later round is the original query, unchanged, followed by the label and at
\* most the first 2 supplemental queries of the latest gap report; the question
\* recorded in a round's result is the one that round was given.
C23_QuestionKeepsOriginal ==
    /\ SubSeq(current_query, 1, Len(query)) = query
    /\ gap_log = <<>> => current_query = query
    /\ (gap_log # <<>> /\ gap_log[Len(gap_log)] # <<>>) =>
         LET latest == gap_log[Len(gap_log)]
         IN /\ current_query =
                 query \o <<DigestLabel>> \o SubSeq(latest, 1, Min(2, Len(latest)))
            /\ Len(current_query) <= Len(query) + 3
    /\ (pc \in {"chain_load", "chain_stock", "chain_search", "chain_gather",
                "chain_consensus"} /\ iteration >= 2) => current_query # query
    /\ (pc = "iter_decide" /\ result # None) => result.question = current_query

C23_Witness ==
    /\ pc = "chain_gather"
    /\ iteration = 2
    /\ gap_log = << <<"policy", "macro", "stock">> >>
    /\ current_query = <<"stock", DigestLabel, "policy", "macro">>

\* C24: every round runs chain.run in full: when its fan-outs are over,
\* chain_max_iterations batches have run and the analyses kept are those of
\* the last batch alone; in a run that returns iteration_count = n every
\* selected expert has received exactly n * chain_max_iterations generation
\* calls, n * chain_max_iterations searches were made, and the result holds
\* the analyses of the last batch of the last round.
C24_RoundsTimesBatches ==
    /\ pc = "chain_consensus" =>
         /\ chain_iteration = chain_max_iterations
         /\ all_analyses = Analyses(experts, tasks)
    /\ returned # None =>
         /\ returned.iteration_count = rounds_done
         /\ \A i \in 1..Len(experts) :
              calls.by_expert[experts[i].name] =
                  returned.iteration_count * chain_max_iterations
         /\ calls.search = returned.iteration_count * chain_max_iterations
         /\ AnalysisNames(returned.expert_analyses) = Names(experts)

\* C21: the context given to the experts in any later fan-out of the run has
\* the context given in every earlier fan-out as a prefix, and a fan-out that
\* follows a supplemental search of the same chain.run call has at most 3
\* snippets more than the one before it.
C21_ContextIsAppendOnly ==
    LET given == calls.contexts
        IsPrefix(a, b) == Len(a) <= Len(b) /\ SubSeq(b, 1, Len(a)) = a
    IN /\ \A i, j \in 1..Len(given) : i < j => IsPrefix(given[i], given[j])
       /\ \A i \in 1..(Len(given) - 1) :
            i % chain_max_iterations # 0 =>
                Len(given[i + 1]) <= Len(given[i]) + SuppSnippets

\* the names of the experts that have been given a generation call
Analysed == {n \in ExpertNames : calls.by_expert[n] > 0}

\* C25 as stated: once a round is complete, the experts of the run are the
\* experts that have been analysed, whatever the selection mode.
C25_Original ==
    rounds_done >= 1 => Analysed = Range(Names(experts))

\* C25: the set of experts analysed is the same in every round when the
\* caller supplies expert names or the catalog holds at most MaxExperts
\* experts.
C25_SameExpertsEveryRound ==
    (rounds_done >= 1
       /\ (expert_names # <<>> \/ Cardinality(ValidNames(store)) <= MaxExperts)) =>
        Analysed = Range(Names(experts))

C25_Witness ==
    /\ rounds_done = 2
    /\ expert_names = <<>>
    /\ store = ThreeExperts
    /\ "policy" \in Range(current_query)
    /\ Names(experts) = <<"A", "B", "H">>
    /\ Analysed = {"A", "B", "H"}

\* 0.5 <= score < 1.0
InHalfOpenRange(s) == 2 * s[1] >= s[2] /\ s[1] < s[2]

\* C26: for at least 2 analyses the score is in [0.5, 1.0); a run with at
\* least 2 experts and threshold 1.0 never ends as consensus reached; a run
\* with threshold <= 0.5 never starts a second round nor asks for gaps, and
\* ends as consensus reached when its round completes.
C26_ScoreBelowOne ==
    /\ (pc = "consensus_done" /\ Len(analyses) >= 2) => InHalfOpenRange(score)
    /\ (pc = "iter_decide" /\ Len(result.expert_analyses) >= 2) =>
         InHalfOpenRange(consensus_score)
    /\ (consensus_threshold = 1000 /\ Len(experts) >= 2) =>
         terminal_state # "CONSENSUS_REACHED"
    /\ consensus_threshold <= 500 =>
         /\ iteration <= 1
         /\ gap_log = <<>>
         /\ terminal_state \in {"RUNNING", "CONSENSUS_REACHED"}
         /\ (pc = "done" /\ rounds_done = 1) => terminal_state = "CONSENSUS_REACHED"

C26_Witness ==
    /\ consensus_threshold = 1000
    /\ Len(experts) = 2
    /\ rounds_done = 2
    /\ consensus_score = <<5, 6>>
    /\ terminal_state = "BUDGET_EXHAUSTED"
    /\ returned # None

\* the analyses with one more word at the end of the i-th text
WithWord(as, i, word) ==
    [as EXCEPT ![i] = [@ EXCEPT !.analysis = Append(@, word)]]

\* C27: for at least 2 analyses, one more occurrence of any disagreement
\* keyword in any analysis text never increases the score.
C27_MonotoneInDisagreement ==
    (pc = "consensus_done" /\ Len(analyses) >= 2) =>
        \A i \in 1..Len(analyses), k \in 1..Len(disagreement_keywords) :
            ~FracLess(score,
                      calculate_consensus(WithWord(analyses, i, disagreement_keywords[k])))

\* the budget the claim gives for an argument
ClaimedBudget(arg) ==
    IF arg # None /\ arg.value > 0 THEN arg.value ELSE ConfigMaxIterations

\* C28: the round budget is the max_iterations argument when it is a positive
\* integer and config.max_iterations when it is None or 0: the run never
\* starts more rounds than that, ends as budget exhausted only after exactly
\* that many rounds, and never ends without a round.
C28_BudgetIsArgumentOrDefault ==
    /\ max_iterations = ClaimedBudget(max_iterations_arg)
    /\ iteration <= ClaimedBudget(max_iterations_arg)
    /\ terminal_state = "BUDGET_EXHAUSTED" =>
         rounds_done = ClaimedBudget(max_iterations_arg)
    /\ pc = "done" => iteration >= 1

C28_Witness ==
    /\ max_iterations_arg = Some(0)
    /\ rounds_done = ConfigMaxIterations
    /\ terminal_state = "BUDGET_EXHAUSTED"
    /\ returned # None
    /\ returned.iteration_count = ConfigMaxIterations

\* C29: after any load_all call the list returned has no two experts of the
\* same name, get_expert of every listed expert's name returns that record,
\* and a list served from the cache equals the list returned by the load
\* that filled the cache.
C29_ListAndLookupAgree ==
    catalog_op.op = "load_all" =>
        /\ NoDuplicates(Names(catalog_ret))
        /\ \A i \in 1..Len(catalog_ret) :
              get_expert(cache, store, catalog_ret[i].name) = catalog_ret[i]
        /\ (catalog_op.before # <<>> /\ ~catalog_op.reload) =>
              catalog_ret = load_all(<<>>, catalog_op.scanned, TRUE).ret

\* C30: after any sequence of register calls no name is in both the search
\* and the export registry, and the plugin under a name in either of them is
\* the instance the general registry holds under that name.
C30_RegistriesAgree ==
    /\ \A i \in 1..Len(plugins.search), j \in 1..Len(plugins.export) :
          plugins.search[i].name # plugins.export[j].name
    /\ \A i \in 1..Len(plugins.search) :
          DictGet(plugins.all, plugins.search[i].name) = plugins.search[i]
    /\ \A i \in 1..Len(plugins.export) :
          DictGet(plugins.all, plugins.export[i].name) = plugins.export[i]

====
